---- MODULE Spec2Model ----
(***************************************************************************)
(* Shape-level model of Assignment13/main_lt.py: the YOLOv3 layer list     *)
(* built from model_config, the forward pass over it, and the Lightning    *)
(* hooks of the YOLOv3 module.  Tensors are modelled by their shapes; the  *)
(* numeric kernels (convolution, batch norm, loss) are the library's.      *)
(***************************************************************************)
EXTENDS Integers, Sequences, FiniteSets, TLC

\* ------------------------------------------------------------------ bounds
\* Largest batch size N of an input batch.
MaxN == 2
\* Input heights and widths are drawn from 1..MaxDim and ExtraDims.
MaxDim == 40
\* Classes are drawn from 1..MaxClasses and the constructor's default.
MaxClasses == 1
\* len(train_loader) is drawn from 1..MaxBatches.
MaxBatches == 2
\* At most MaxValBatches validation batches per epoch.
MaxValBatches == 1

\* ------------------------------------------------- architecture definition
\* in_channels=3, num_classes=80: the defaults of YOLOv3.__init__.
InChannelsDefault == 3
NumClassesDefault == 80

ConvT(filters, kernel_size, stride) ==
    [kind |-> "tuple", out_channels |-> filters,
     kernel_size |-> kernel_size, stride |-> stride]
BList(num_repeats) == [kind |-> "list", num_repeats |-> num_repeats]
Str(s) == [kind |-> "str", name |-> s]

model_config ==
    << ConvT(32, 3, 1),
       ConvT(64, 3, 2),
       BList(1),
       ConvT(128, 3, 2),
       BList(2),
       ConvT(256, 3, 2),
       BList(8),
       ConvT(512, 3, 2),
       BList(8),
       ConvT(1024, 3, 2),
       BList(4),
       ConvT(512, 1, 1),
       ConvT(1024, 3, 1),
       Str("S"),
       ConvT(256, 1, 1),
       Str("U"),
       ConvT(256, 1, 1),
       ConvT(512, 3, 1),
       Str("S"),
       ConvT(128, 1, 1),
       Str("U"),
       ConvT(128, 1, 1),
       ConvT(256, 3, 1),
       Str("S") >>

\* ------------------------------------------------------------ constructors
\* nn.Conv2d as CNNBlock.__init__ builds it; stride and padding are the
\* keyword arguments the caller passed (nn.Conv2d's defaults are 1 and 0).
Conv2d(in_channels, out_channels, kernel_size, stride, padding) ==
    [in_channels |-> in_channels, out_channels |-> out_channels,
     kernel_size |-> kernel_size, stride |-> stride, padding |-> padding]

CNNBlock(in_channels, out_channels, bn_act, kernel_size, stride, padding) ==
    [type |-> "CNNBlock",
     conv |-> Conv2d(in_channels, out_channels, kernel_size, stride, padding),
     bn |-> out_channels,
     use_bn_act |-> bn_act]

\* One repeat of a residual block: CNNBlock(channels, channels // 2,
\* kernel_size=1) then CNNBlock(channels // 2, channels, kernel_size=3,
\* padding=1).
ResidualRepeat(channels) ==
    << CNNBlock(channels, channels \div 2, TRUE, 1, 1, 0),
       CNNBlock(channels \div 2, channels, TRUE, 3, 1, 1) >>

ResidualBlock(channels, use_residual, num_repeats) ==
    [type |-> "ResidualBlock",
     layers |-> [r \in 1..num_repeats |-> ResidualRepeat(channels)],
     use_residual |-> use_residual,
     num_repeats |-> num_repeats]

ScalePrediction(in_channels, num_classes) ==
    [type |-> "ScalePrediction",
     pred |-> << CNNBlock(in_channels, 2 * in_channels, TRUE, 3, 1, 1),
                 CNNBlock(2 * in_channels, (num_classes + 5) * 3, FALSE, 1, 1, 0) >>,
     num_classes |-> num_classes]

Upsample(scale_factor) == [type |-> "Upsample", scale_factor |-> scale_factor]

\* Mutant of Padding: no padding for any kernel.
PaddingNone(kernel_size) == 0

\* padding=1 if kernel_size == 3 else 0
Padding(kernel_size) == IF kernel_size = 3 THEN 1 ELSE 0

\* The "S" branch of _create_conv_layers: three layers.
ScaleLayers(in_channels, num_classes) ==
    << ResidualBlock(in_channels, FALSE, 1),
       CNNBlock(in_channels, in_channels \div 2, TRUE, 1, 1, 0),
       ScalePrediction(in_channels \div 2, num_classes) >>

\* Mutant of AfterUpsample: the route map taken to be as wide as the
\* upsampled map.
AfterUpsampleDouble(in_channels) == in_channels * 2

\* The value of in_channels after a "U" entry.
AfterUpsample(in_channels) == in_channels * 3

\* The loop of _create_conv_layers from entry i on, with the tracked
\* in_channels and the layers built so far.
RECURSIVE create_loop(_, _, _, _)
create_loop(i, in_channels, layers, num_classes) ==
    IF i > Len(model_config) THEN layers
    ELSE LET module == model_config[i] IN
         CASE module.kind = "tuple" ->
                create_loop(i + 1, module.out_channels,
                    Append(layers,
                        CNNBlock(in_channels, module.out_channels, TRUE,
                                 module.kernel_size, module.stride,
                                 Padding(module.kernel_size))),
                    num_classes)
           [] module.kind = "list" ->
                create_loop(i + 1, in_channels,
                    Append(layers,
                        ResidualBlock(in_channels, TRUE, module.num_repeats)),
                    num_classes)
           [] module.kind = "str" /\ module.name = "S" ->
                create_loop(i + 1, in_channels \div 2,
                    layers \o ScaleLayers(in_channels, num_classes),
                    num_classes)
           [] module.kind = "str" /\ module.name = "U" ->
                create_loop(i + 1, AfterUpsample(in_channels),
                    Append(layers, Upsample(2)),
                    num_classes)
           [] OTHER -> create_loop(i + 1, in_channels, layers, num_classes)

create_conv_layers(in_channels, num_classes) ==
    create_loop(1, in_channels, << >>, num_classes)

\* ------------------------------------------------------------ the object
\* Dimensions and class counts the inputs are drawn from.
ExtraDims == {64, 96, 100}
Dims == (1..MaxDim) \cup ExtraDims
ClassChoices == (1..MaxClasses) \cup {NumClassesDefault}

VARIABLES
    num_classes,     \* self.num_classes
    self_layers,     \* self.layers
    config,          \* self.config (the fields the hooks branch on)
    train_len,       \* len(self.train_loader)
    fw,              \* the frame of a call of YOLOv3.forward
    current_epoch,   \* self.current_epoch, kept by the trainer
    phase,           \* where the trainer is in its run
    batch_idx,       \* batches done in the current loop
    last,            \* the last hook called and how it ended
    calls,           \* the collaborator calls the last hook made, in order
    logged,          \* what self.log recorded: key and epoch
    saved,           \* file names passed to save_checkpoint, with the epoch
    sched            \* the scheduler the trainer holds and its step count

objvars == << num_classes, self_layers, config, train_len >>
hookvars == << current_epoch, phase, batch_idx, last, calls, logged, saved, sched >>
vars == << num_classes, self_layers, config, train_len, fw,
           current_epoch, phase, batch_idx, last, calls, logged, saved, sched >>

\* ------------------------------------------------------ layers on shapes
\* A shape is <<N, C, H, W>>.  A result is a shape or a raised error, with
\* the convolutions applied on the way: <<kernel, stride, padding, in_h,
\* in_w, out_h, out_w>> each.
Raised(convs) == [ok |-> FALSE, shape |-> << >>, convs |-> convs]
Ok(shape, convs) == [ok |-> TRUE, shape |-> shape, convs |-> convs]

\* Mutant of ConvOutSize: the size divided by the stride, rounded down.
ConvOutSizeFloor(n, conv) == n \div conv.stride

\* nn.Conv2d: output size along one spatial axis (dilation 1).
ConvOutSize(n, conv) ==
    ((n + 2 * conv.padding - conv.kernel_size) \div conv.stride) + 1

\* self.conv(x): the input must have conv.in_channels channels.
Conv2dForward(conv, shape) ==
    IF shape[2] # conv.in_channels
    THEN Raised(<< >>)
    ELSE LET oh == ConvOutSize(shape[3], conv)
             ow == ConvOutSize(shape[4], conv)
         IN  Ok(<< shape[1], conv.out_channels, oh, ow >>,
                << << conv.kernel_size, conv.stride, conv.padding,
                      shape[3], shape[4], oh, ow >> >>)

\* CNNBlock.forward: batch norm and leaky ReLU keep the shape; batch norm
\* needs bn channels.
CNNBlockForward(blk, shape) ==
    LET r == Conv2dForward(blk.conv, shape) IN
    IF r.ok /\ blk.use_bn_act /\ r.shape[2] # blk.bn THEN Raised(r.convs) ELSE r

\* nn.Sequential of two CNNBlocks.
SequentialForward(blocks, shape) ==
    LET a == CNNBlockForward(blocks[1], shape) IN
    IF ~a.ok THEN a
    ELSE LET b == CNNBlockForward(blocks[2], a.shape) IN
         IF b.ok THEN Ok(b.shape, a.convs \o b.convs)
         ELSE Raised(a.convs \o b.convs)

\* ResidualBlock.forward from repeat i on.
RECURSIVE residual_loop(_, _, _, _)
residual_loop(rb, i, shape, convs) ==
    IF i > Len(rb.layers) THEN Ok(shape, convs)
    ELSE LET y == SequentialForward(rb.layers[i], shape) IN
         IF ~y.ok THEN Raised(convs \o y.convs)
         ELSE IF rb.use_residual /\ y.shape # shape
              THEN Raised(convs \o y.convs)          \* x + layer(x)
              ELSE residual_loop(rb, i + 1, y.shape, convs \o y.convs)

ResidualBlockForward(rb, shape) == residual_loop(rb, 1, shape, << >>)

Numel(shape) ==
    LET RECURSIVE prod(_)
        prod(i) == IF i > Len(shape) THEN 1 ELSE shape[i] * prod(i + 1)
    IN  prod(1)

\* Mutant of Permute: the axes left in place.
PermuteNone(shape, dims) == shape

\* tensor.permute(dims), dims 0-based.
Permute(shape, dims) == [i \in 1..Len(dims) |-> shape[dims[i] + 1]]

\* ScalePrediction.forward: reshape to (N, 3, num_classes + 5, H, W), then
\* permute(0, 1, 3, 4, 2).
ScalePredictionForward(sp, shape) ==
    LET p == SequentialForward(sp.pred, shape)
        target == << shape[1], 3, sp.num_classes + 5, shape[3], shape[4] >>
    IN  IF ~p.ok THEN p
        ELSE IF Numel(p.shape) # Numel(target) THEN Raised(p.convs)
        ELSE Ok(Permute(target, << 0, 1, 3, 4, 2 >>), p.convs)

\* nn.Upsample(scale_factor=2) on the two spatial axes.
UpsampleForward(up, shape) ==
    Ok(<< shape[1], shape[2],
          shape[3] * up.scale_factor, shape[4] * up.scale_factor >>, << >>)

\* torch.cat([a, b], dim=1): every other axis must agree.
CatOk(a, b) == a[1] = b[1] /\ a[3] = b[3] /\ a[4] = b[4]
Cat(a, b) == << a[1], a[2] + b[2], a[3], a[4] >>

LayerForward(layer, shape) ==
    CASE layer.type = "CNNBlock" -> CNNBlockForward(layer, shape)
      [] layer.type = "ResidualBlock" -> ResidualBlockForward(layer, shape)
      [] layer.type = "ScalePrediction" -> ScalePredictionForward(layer, shape)
      [] layer.type = "Upsample" -> UpsampleForward(layer, shape)

\* --------------------------------------------------------- YOLOv3.forward
\* A tensor is its shape and the index of the layer that produced it (0 for
\* the input).  The frame holds the locals of forward, the loop position,
\* the argument, the convolutions of the last iteration, and the history
\* of the route stack: pushed (producer indices) and popped (per
\* concatenation: the Upsample index, the upsampled map, the route map).
Tensor(shape, src) == [shape |-> shape, src |-> src]

IdleFrame ==
    [status |-> "idle", arg |-> << >>, x |-> Tensor(<< >>, 0), idx |-> 0,
     outputs |-> << >>, route_connections |-> << >>,
     convs |-> << >>, pushed |-> << >>, popped |-> << >>]

EnterForward(shape) ==
    [IdleFrame EXCEPT !.status = "running", !.arg = shape,
                      !.x = Tensor(shape, 0), !.idx = 1]

\* Mutant of IsRoute: every residual block is a route.
IsRouteAny(layer) == layer.type = "ResidualBlock"

\* isinstance(layer, ResidualBlock) and layer.num_repeats == 8
IsRoute(layer) == layer.type = "ResidualBlock" /\ layer.num_repeats = 8

\* One iteration of "for layer in self.layers" on frame f.
ForwardIter(layers, f) ==
    LET layer == layers[f.idx]
        r == LayerForward(layer, f.x.shape)
        g == [f EXCEPT !.idx = f.idx + 1, !.convs = r.convs]
    IN  IF ~r.ok THEN [g EXCEPT !.status = "RuntimeError"]
        ELSE IF layer.type = "ScalePrediction"
        THEN [g EXCEPT !.outputs = Append(f.outputs, Tensor(r.shape, f.idx))]
        ELSE LET x == Tensor(r.shape, f.idx) IN
             IF IsRoute(layer)
             THEN [g EXCEPT !.x = x,
                            !.route_connections = Append(f.route_connections, x),
                            !.pushed = Append(f.pushed, x.src)]
             ELSE IF layer.type = "Upsample"
             THEN IF f.route_connections = << >>
                  THEN [g EXCEPT !.x = x, !.status = "IndexError"]
                  ELSE LET top == f.route_connections[Len(f.route_connections)] IN
                       IF ~CatOk(x.shape, top.shape)
                       THEN [g EXCEPT !.x = x, !.status = "RuntimeError"]
                       ELSE [g EXCEPT
                               !.x = Tensor(Cat(x.shape, top.shape), f.idx),
                               !.route_connections =
                                   SubSeq(f.route_connections, 1,
                                          Len(f.route_connections) - 1),
                               !.popped = Append(f.popped,
                                   [at |-> f.idx, up |-> x, route |-> top])]
             ELSE [g EXCEPT !.x = x]

\* Values of Python: None, and a loss as the terms it sums, each term
\* loss_fn(out[o], y[t], scaled_anchors[a]) written << o, t, a >>.
NoneValue == [kind |-> "None", terms |-> << >>]
LossValue(terms) == [kind |-> "loss", terms |-> terms]
MapValue == [kind |-> "mapval.item()", terms |-> << >>]

NoCall == [hook |-> "none", raised |-> "none", returned |-> NoneValue]
NoScheduler == [set |-> FALSE, total_steps |-> 0, interval |-> "none",
                step_count |-> 0]

\* YOLOv3.__init__, and a trainer that has not started.
Init ==
    /\ num_classes \in ClassChoices
    /\ self_layers = create_conv_layers(InChannelsDefault, num_classes)
    /\ config \in [SAVE_MODEL : BOOLEAN]
    /\ train_len \in 1..MaxBatches
    /\ fw = IdleFrame
    /\ current_epoch = 0
    /\ phase = "constructed"
    /\ batch_idx = 0
    /\ last = NoCall
    /\ calls = << >>
    /\ logged = {}
    /\ saved = {}
    /\ sched = NoScheduler

\* The forward pass reads neither the configuration nor the loaders.
InitForward ==
    /\ Init
    /\ config = [SAVE_MODEL |-> FALSE]
    /\ train_len = 1

\* model(x) on a batch of shape (n, 3, h, w).
ForwardCall ==
    /\ fw.status = "idle"
    /\ \E n \in 1..MaxN, h \in Dims, w \in Dims :
          fw' = EnterForward(<< n, InChannelsDefault, h, w >>)
    /\ UNCHANGED << objvars, hookvars >>

ForwardLoop ==
    /\ fw.status = "running"
    /\ fw.idx <= Len(self_layers)
    /\ fw' = ForwardIter(self_layers, fw)
    /\ UNCHANGED << objvars, hookvars >>

ForwardReturn ==
    /\ fw.status = "running"
    /\ fw.idx > Len(self_layers)
    /\ fw' = [fw EXCEPT !.status = "returned"]
    /\ UNCHANGED << objvars, hookvars >>

NextForward ==
    \/ ForwardCall
    \/ ForwardLoop
    \/ ForwardReturn

SpecForward == InitForward /\ [][NextForward]_vars

\* ------------------------------------------------- properties of forward
CeilDiv(a, b) == (a + b - 1) \div b

IsS(module) == module.kind = "str" /\ module.name = "S"
IsScalePrediction(layer) == layer.type = "ScalePrediction"
IndicesWhere(layers, P(_)) ==
    SelectSeq([i \in 1..Len(layers) |-> i], LAMBDA i : P(layers[i]))

Called == fw.status # "idle"
Failed == fw.status \in {"RuntimeError", "IndexError"}

ConvsOf(layer) ==
    CASE layer.type = "CNNBlock" -> {layer.conv}
      [] layer.type = "ResidualBlock" ->
            UNION {{layer.layers[r][1].conv, layer.layers[r][2].conv} :
                   r \in 1..Len(layer.layers)}
      [] layer.type = "ScalePrediction" -> {layer.pred[1].conv, layer.pred[2].conv}
      [] OTHER -> {}
AllConvs(layers) == UNION {ConvsOf(layers[i]) : i \in 1..Len(layers)}

\* C3: every convolution the model builds is a same convolution: its
\* output size is ceil(n / stride) for every n >= 1 (stride 1 keeps the
\* size, stride 2 gives ceil(n / 2)); kernels are 1 with padding 0 or 3 with
\* padding 1.  Stated of the convolutions built (once, after construction)
\* and of the convolutions each iteration of forward applied.
C3_SameConvolution ==
    /\ fw.status = "idle" =>
          \A c \in AllConvs(self_layers) :
             /\ << c.kernel_size, c.padding >> \in {<< 1, 0 >>, << 3, 1 >>}
             /\ c.stride \in {1, 2}
             /\ \A n \in 1..MaxDim : ConvOutSize(n, c) = CeilDiv(n, c.stride)
    /\ \A k \in 1..Len(fw.convs) :
          LET e == fw.convs[k] IN
          /\ e[6] = CeilDiv(e[4], e[2])
          /\ e[7] = CeilDiv(e[5], e[2])
          /\ e[2] = 1 => (e[6] = e[4] /\ e[7] = e[5])

\* Witness of C3: a stride-2 convolution was just applied to odd sizes above
\* one.
C3_Witness ==
    \E k \in 1..Len(fw.convs) :
        /\ fw.convs[k][2] = 2
        /\ fw.convs[k][4] = 33 /\ fw.convs[k][6] = 17
        /\ fw.convs[k][5] = 5 /\ fw.convs[k][7] = 3

\* The channel count a layer was constructed with (Upsample has none).
BuiltInChannels(layer) ==
    CASE layer.type = "CNNBlock" -> layer.conv.in_channels
      [] layer.type = "ResidualBlock" -> layer.layers[1][1].conv.in_channels
      [] layer.type = "ScalePrediction" -> layer.pred[1].conv.in_channels

\* C4: every layer is fed a tensor with the channel count it was built
\* with (so no layer raises on its input channels), and after each "U" the
\* next layer's in_channels is the upsampled map's channels plus the route
\* map's: 256 + 512 = 768 at the first, 128 + 256 = 384 at the second.
C4_ChannelBookkeeping ==
    /\ (fw.status = "running" /\ fw.idx <= Len(self_layers)
            /\ self_layers[fw.idx].type # "Upsample") =>
          BuiltInChannels(self_layers[fw.idx]) = fw.x.shape[2]
    /\ Failed => (fw.status = "RuntimeError"
                    /\ self_layers[fw.idx - 1].type = "Upsample"
                    /\ ~CatOk(fw.x.shape, 
                              fw.route_connections[Len(fw.route_connections)].shape))
    /\ \A k \in 1..Len(fw.popped) :
          LET p == fw.popped[k] IN
          /\ BuiltInChannels(self_layers[p.at + 1])
                = p.up.shape[2] + p.route.shape[2]
          /\ << p.up.shape[2], p.route.shape[2] >>
                = (IF k = 1 THEN << 256, 512 >> ELSE << 128, 256 >>)
          /\ BuiltInChannels(self_layers[p.at + 1])
                = (IF k = 1 THEN 768 ELSE 384)

\* Witness of C4: the layer after the second concatenation is about to run.
C4_Witness ==
    /\ fw.status = "running"
    /\ Len(fw.popped) = 2
    /\ fw.idx = fw.popped[2].at + 1
    /\ fw.x.shape[2] = 384

SeqToSet(q) == {q[i] : i \in 1..Len(q)}

\* C5: route_connections is pushed exactly after each residual block with
\* num_repeats == 8, is non-empty at every Upsample, each Upsample pops the
\* most recently pushed route not yet consumed (the second 8-repeat block's
\* output at the first "U", the first one's at the second), every route is
\* consumed once, and the stack is empty when forward returns.
C5_RouteStack ==
    Called =>
    LET EightRepeats(layer) ==
            layer.type = "ResidualBlock" /\ layer.num_repeats = 8
        routes == IndicesWhere(self_layers, EightRepeats)
        done == IF fw.status = "returned" THEN Len(self_layers) ELSE fw.idx - 1
    IN  /\ fw.pushed = SelectSeq(routes, LAMBDA j : j <= done)
        /\ [k \in 1..Len(fw.route_connections) |-> fw.route_connections[k].src]
               = SelectSeq(fw.pushed,
                     LAMBDA j : \A k \in 1..Len(fw.popped) :
                                    fw.popped[k].route.src # j)
        /\ fw.status # "IndexError"
        /\ (fw.status = "running" /\ fw.idx <= Len(self_layers)
                /\ self_layers[fw.idx].type = "Upsample") =>
              fw.route_connections # << >>
        /\ \A k \in 1..Len(fw.popped) :
              LET p == fw.popped[k]
                  unconsumed ==
                      {j \in SeqToSet(fw.pushed) :
                          /\ j < p.at
                          /\ \A m \in 1..(k - 1) : fw.popped[m].route.src # j}
              IN  /\ p.route.src \in unconsumed
                  /\ \A j \in unconsumed : j <= p.route.src
                  /\ p.route.src = routes[Len(routes) + 1 - k]
        /\ fw.status = "returned" =>
              /\ fw.route_connections = << >>
              /\ Len(fw.popped) = Len(fw.pushed)
              /\ Len(routes) = 2
              /\ \A j \in SeqToSet(fw.pushed) :
                    Cardinality({k \in 1..Len(fw.popped) :
                                    fw.popped[k].route.src = j}) = 1

\* Witness of C5: forward returned after two pushes and two pops.
C5_Witness ==
    /\ fw.status = "returned"
    /\ Len(fw.pushed) = 2
    /\ Len(fw.popped) = 2
    /\ fw.popped[1].route.src > fw.popped[2].route.src

\* ceil(d / 8) is a multiple of 4.
ConcatSize(d) == CeilDiv(d, 8) % 4 = 0

Epochs == 40

\* Names bound at the top level of main_lt.py: its imports, model_config
\* and its classes.
ModuleGlobals ==
    {"print_function", "pl", "torch", "nn", "F", "optim", "datasets",
     "transforms", "A", "np", "ToTensorV2", "summary", "tqdm", "LRFinder",
     "OneCycleLR", "plt", "GradCAM", "ClassifierOutputTarget",
     "show_cam_on_image", "YoloLoss", "mean_average_precision",
     "cells_to_bboxes", "get_evaluation_bboxes", "save_checkpoint",
     "load_checkpoint", "check_class_accuracy", "get_loaders",
     "plot_couple_examples", "model_config", "CNNBlock", "ResidualBlock",
     "ScalePrediction", "YOLOv3"}

\* Attributes YOLOv3.__init__ sets on self; they are reached as self.<name>,
\* never as bare names.
InstanceAttributes ==
    {"num_classes", "in_channels", "layers", "config", "scaled_anchors",
     "loss_fn", "train_loader", "test_loader"}

\* Names local to training_step when the loss expression is evaluated.
TrainingStepLocals ==
    {"self", "batch", "batch_idx", "x", "y", "y0", "y1", "y2", "out"}

\* Builtins the file uses.
Builtins == {"print", "isinstance", "range", "len", "super"}

\* Python's lookup of a bare name in a function body.
Resolves(name, locals) ==
    name \in locals \cup ModuleGlobals \cup Builtins

\* The sum training_step writes: loss_fn(out[i], y_i, scaled_anchors[i]).
TrainLossTerms == << << 0, 0, 0 >>, << 1, 1, 1 >>, << 2, 2, 2 >> >>

\* What the call named loss_fn in training_step resolves with.
LossFnName == "loss_fn"

\* YOLOv3.training_step from the end of "out = self(x)" on, out being the
\* finished frame of that call: how the hook ends, what it logs and what it
\* returns.
training_step(out) ==
    IF out.status # "returned"
    THEN [raised |-> out.status, logs |-> {}, returned |-> NoneValue]
    ELSE IF ~Resolves(LossFnName, TrainingStepLocals)
    THEN [raised |-> "NameError", logs |-> {}, returned |-> NoneValue]
    ELSE [raised |-> "none",
          logs |-> {[key |-> "train_loss", value |-> LossValue(TrainLossTerms)]},
          returned |-> NoneValue]

\* Mutant of EvaluatesAt: the first epochs left out.
EvaluatesAtTens(epoch) == epoch % 10 = 0

\* current_epoch % 10 == 0 or current_epoch in (1,2,3)
EvaluatesAt(epoch) == epoch % 10 = 0 \/ epoch \in {1, 2, 3}

Call(fn, arg) == [fn |-> fn, arg |-> arg]

\* The collaborator calls of validation_epoch_end, in order.
validation_epoch_end(epoch) ==
    IF EvaluatesAt(epoch)
    THEN << Call("check_class_accuracy", "test_loader"),
            Call("get_evaluation_bboxes", "test_loader"),
            Call("mean_average_precision", "pred_boxes, true_boxes"),
            Call("print", "mapval"),
            Call("log", "MAP") >>
    ELSE << >>

\* str(n) for n >= 0, as an f-string formats an int.
Digit == << "0", "1", "2", "3", "4", "5", "6", "7", "8", "9" >>
RECURSIVE IntToStr(_)
IntToStr(n) ==
    IF n < 10 THEN Digit[n + 1]
    ELSE IntToStr(n \div 10) \o Digit[(n % 10) + 1]

\* Mutant of Filename: one name for every epoch.
FilenameFixed(epoch) == "checkpoint.pth.tar"

\* f"checkpoint_{current_epoch}.pth.tar"
Filename(epoch) == "checkpoint_" \o IntToStr(epoch) \o ".pth.tar"

\* The collaborator calls of training_epoch_end, in order.
training_epoch_end(epoch, cfg) ==
    (IF cfg.SAVE_MODEL
     THEN << Call("save_checkpoint", Filename(epoch)) >>
     ELSE << >>)
    \o << Call("check_class_accuracy", "train_loader") >>

\* configure_optimizers: ([optimizer], [scheduler]) with a OneCycleLR of
\* total_steps = epochs * steps_per_epoch.  Rates are in units of 1e-6 and
\* pct_start is the pair << 5, 40 >>.  The scheduler is returned bare: the
\* only key of its configuration is the scheduler itself.
configure_optimizers(steps_per_epoch) ==
    [optimizers |-> << [type |-> "Adam", lr |-> 10, weight_decay |-> 100] >>,
     lr_schedulers |-> << [type |-> "OneCycleLR",
                           max_lr |-> 1000,
                           div_factor |-> 100,
                           pct_start |-> << 5, 40 >>,
                           total_steps |-> Epochs * steps_per_epoch] >>,
     keys |-> {"scheduler"}]

\* The trainer steps a scheduler once per epoch unless its configuration
\* says "interval": "step".
IntervalOf(returned) ==
    IF "interval" \in returned.keys THEN "step" ELSE "epoch"

BatchDims == {32, 64}
BatchShapes ==
    {<< n, InChannelsDefault, d, d >> : n \in 1..MaxN, d \in BatchDims}

StepScheduler(when) ==
    IF sched.set /\ sched.interval = when
    THEN [sched EXCEPT !.step_count = sched.step_count + 1]
    ELSE sched

\* The trainer asks for the optimizer and scheduler, then starts epoch 0.
ConfigureOptimizers ==
    /\ phase = "constructed"
    /\ LET r == configure_optimizers(train_len) IN
       sched' = [set |-> TRUE,
                 total_steps |-> r.lr_schedulers[1].total_steps,
                 interval |-> IntervalOf(r),
                 step_count |-> 0]
    /\ phase' = "train"
    /\ last' = [NoCall EXCEPT !.hook = "configure_optimizers"]
    /\ calls' = << >>
    /\ UNCHANGED << objvars, fw, current_epoch, batch_idx, logged, saved >>

\* training_step on the next training batch, up to its call of self(x);
\* the forward pass then runs by ForwardLoop and ForwardReturn.
TrainingStepCall ==
    /\ phase = "train"
    /\ batch_idx < train_len
    /\ fw.status = "idle"
    /\ \E shape \in BatchShapes : fw' = EnterForward(shape)
    /\ phase' = "training_step"
    /\ UNCHANGED << objvars, current_epoch, batch_idx, last, calls, logged,
                    saved, sched >>

\* The rest of training_step, once self(x) has returned or raised.  A raised
\* exception is the hook's outcome; what the caller does with it is the
\* caller's, and the later hooks stay callable here.  Without a returned
\* loss there is no backward pass and no optimizer step.
TrainingStep ==
    /\ phase = "training_step"
    /\ fw.status \in {"returned", "RuntimeError", "IndexError"}
    /\ LET r == training_step(fw) IN
         /\ last' = [hook |-> "training_step", raised |-> r.raised,
                     returned |-> r.returned]
         /\ logged' = logged \cup
                {[key |-> e.key, value |-> e.value, epoch |-> current_epoch] :
                    e \in r.logs}
    /\ fw' = IdleFrame
    /\ calls' = << >>
    /\ batch_idx' = IF batch_idx + 1 = train_len THEN 0 ELSE batch_idx + 1
    /\ phase' = IF batch_idx + 1 = train_len THEN "validate" ELSE "train"
    /\ sched' = StepScheduler("step")
    /\ UNCHANGED << objvars, current_epoch, saved >>

\* validation_step: pass.
ValidationStep ==
    /\ phase = "validate"
    /\ batch_idx < MaxValBatches
    /\ batch_idx' = batch_idx + 1
    /\ last' = [NoCall EXCEPT !.hook = "validation_step"]
    /\ calls' = << >>
    /\ UNCHANGED << objvars, fw, current_epoch, phase, logged, saved, sched >>

ValidationEpochEnd ==
    /\ phase = "validate"
    /\ calls' = validation_epoch_end(current_epoch)
    /\ logged' = logged \cup
          {[key |-> c.arg, value |-> MapValue, epoch |-> current_epoch] :
              c \in {calls'[i] : i \in 1..Len(calls')} \cap {Call("log", "MAP")}}
    /\ last' = [NoCall EXCEPT !.hook = "validation_epoch_end"]
    /\ phase' = "train_end"
    /\ batch_idx' = 0
    /\ UNCHANGED << objvars, fw, current_epoch, saved, sched >>

TrainingEpochEnd ==
    /\ phase = "train_end"
    /\ calls' = training_epoch_end(current_epoch, config)
    /\ saved' = saved \cup
          {[name |-> calls'[i].arg, epoch |-> current_epoch] :
              i \in {j \in 1..Len(calls') : calls'[j].fn = "save_checkpoint"}}
    /\ last' = [NoCall EXCEPT !.hook = "training_epoch_end"]
    /\ phase' = "epoch_end"
    /\ UNCHANGED << objvars, fw, current_epoch, batch_idx, logged, sched >>

\* The trainer ends the epoch: an epoch-interval scheduler is stepped, and
\* the next epoch starts unless this was the last.
NextEpoch ==
    /\ phase = "epoch_end"
    /\ sched' = StepScheduler("epoch")
    /\ IF current_epoch + 1 < Epochs
       THEN current_epoch' = current_epoch + 1 /\ phase' = "train"
       ELSE current_epoch' = current_epoch /\ phase' = "finished"
    /\ UNCHANGED << objvars, fw, batch_idx, last, calls, logged, saved >>

Next ==
    \/ ConfigureOptimizers
    \/ TrainingStepCall
    \/ ForwardLoop
    \/ ForwardReturn
    \/ TrainingStep
    \/ ValidationStep
    \/ ValidationEpochEnd
    \/ TrainingEpochEnd
    \/ NextEpoch

Spec == Init /\ [][Next]_vars

\* ------------------------------------------------- properties of the hooks
CallIndex(fn) == {i \in 1..Len(calls) : calls[i].fn = fn}

\* Epochs whose validation_epoch_end, resp. training_epoch_end, has run.
ValidatedEpochs ==
    IF phase \in {"train_end", "epoch_end", "finished"}
    THEN 0..current_epoch
    ELSE 0..(current_epoch - 1)
EndedEpochs ==
    IF phase \in {"epoch_end", "finished"}
    THEN 0..current_epoch
    ELSE 0..(current_epoch - 1)

\* C2: training_step runs to completion without raising, and logs under
\* "train_loss" the sum over the scales i = 0, 1, 2 of the loss function
\* applied to (out[i], y_i, scaled_anchors[i]).
C2_TrainingStepCompletes ==
    last.hook = "training_step" =>
        /\ last.raised = "none"
        /\ [key |-> "train_loss",
            value |-> LossValue(<< << 0, 0, 0 >>, << 1, 1, 1 >>, << 2, 2, 2 >> >>),
            epoch |-> current_epoch] \in logged

\* C10: training_step returns the total loss it computed for the batch (the
\* value it logs as "train_loss"); validation_step returns nothing.
C10_TrainingStepReturnsLoss ==
    /\ last.hook = "training_step" =>
          last.returned = LossValue(TrainLossTerms)
    /\ last.hook = "validation_step" => last.returned = NoneValue

\* C9: over the 40-epoch run the scheduler is stepped 40 * len(train_loader)
\* times, never more than its total steps, and has taken the
\* 5 * len(train_loader) warm-up steps when epoch 5 starts.
C9_OneCycleTraversed ==
    sched.set =>
        /\ sched.step_count <= sched.total_steps
        /\ sched.total_steps = 40 * train_len
        /\ (phase = "train" /\ batch_idx = 0 /\ current_epoch = 5) =>
              sched.step_count = 5 * train_len
        /\ phase = "finished" => sched.step_count = sched.total_steps

\* C7: validation_epoch_end evaluates exactly when current_epoch % 10 == 0 or
\* current_epoch is 1, 2 or 3, in the order class accuracy on the test
\* loader, get_evaluation_bboxes, mean_average_precision, the "MAP" log, and
\* does nothing otherwise; over epochs 0..39 the evaluated epochs are
\* exactly {0, 1, 2, 3, 10, 20, 30}.
C7_EvaluationEpochs ==
    /\ (last.hook = "validation_epoch_end" /\ phase = "train_end") =>
          IF current_epoch % 10 = 0 \/ current_epoch \in {1, 2, 3}
          THEN /\ CallIndex("check_class_accuracy") = {1}
               /\ calls[1].arg = "test_loader"
               /\ CallIndex("get_evaluation_bboxes") = {2}
               /\ CallIndex("mean_average_precision") = {3}
               /\ CallIndex("log") = {Len(calls)}
               /\ calls[Len(calls)].arg = "MAP"
               /\ Len(calls) > 3
          ELSE calls = << >>
    /\ {e.epoch : e \in {l \in logged : l.key = "MAP"}}
          = {0, 1, 2, 3, 10, 20, 30} \cap ValidatedEpochs
    /\ phase = "finished" =>
          /\ ValidatedEpochs = 0..39
          /\ {e.epoch : e \in {l \in logged : l.key = "MAP"}}
                = {0, 1, 2, 3, 10, 20, 30}

\* Witness of C7: the run is over and seven epochs were evaluated.
C7_Witness ==
    /\ phase = "finished"
    /\ Cardinality({l \in logged : l.key = "MAP"}) = 7

\* C8: training_epoch_end saves a checkpoint if and only if SAVE_MODEL is
\* true, as checkpoint_<current_epoch>.pth.tar, so that every epoch ended
\* has its own file name and no name is used by two epochs (no checkpoint
\* is overwritten); the class-accuracy check on the train loader runs on
\* every call, after the save decision.
C8_Checkpoints ==
    /\ (last.hook = "training_epoch_end" /\ phase = "epoch_end") =>
          /\ (CallIndex("save_checkpoint") # {}) <=> config.SAVE_MODEL
          /\ config.SAVE_MODEL =>
                calls[1] = Call("save_checkpoint",
                                "checkpoint_" \o ToString(current_epoch)
                                    \o ".pth.tar")
          /\ CallIndex("check_class_accuracy") = {Len(calls)}
          /\ calls[Len(calls)].arg = "train_loader"
          /\ Len(calls) = (IF config.SAVE_MODEL THEN 2 ELSE 1)
    /\ \A f \in saved :
          f.name = "checkpoint_" \o ToString(f.epoch) \o ".pth.tar"
    /\ \A f, g \in saved : f.name = g.name => f.epoch = g.epoch
    /\ {f.epoch : f \in saved}
          = (IF config.SAVE_MODEL THEN EndedEpochs ELSE {})

\* Witness of C8: the run is over and every epoch saved its checkpoint.
C8_Witness ==
    /\ phase = "finished"
    /\ config.SAVE_MODEL
    /\ Cardinality({f.name : f \in saved}) = 40
    /\ \E f \in saved : f.name = "checkpoint_39.pth.tar" /\ f.epoch = 39

====
